---- MODULE Spec2Model ----
(***************************************************************************)
(* Model of ifsummary (src/main.rs): the block parser parse_input, the     *)
(* wrapper timed_parse and the driver loop of main.                        *)
(*                                                                         *)
(* A line is a sequence of one-character strings.  The four regular        *)
(* expressions are modelled by matchers over such sequences that compute   *)
(* the leftmost match and its capture groups the way the regex crate does  *)
(* (leftmost-first, greedy).                                               *)
(***************************************************************************)
EXTENDS Integers, Sequences, FiniteSets, TLC

(***************************************************************************)
(* Bounds of the model.                                                    *)
(***************************************************************************)
\* longest stream of arbitrary lines
MaxLines == 2
\* most record pairs in a generated single cycle
MaxPairs == 2
\* most record pairs in each cycle of a generated two-cycle stream
MaxPairs2 == 1

(***************************************************************************)
(* The lines the line source can yield.                                    *)
(***************************************************************************)
\* '----'
L_SEP ==
  <<"-","-","-","-">>
\* '===='
L_END ==
  <<"=","=","=","=">>
\* '1 hostA => 0B 709B 457B 20.3KB'
L_F1 ==
  <<"1"," ","h","o","s","t","A"," ","=",">"," ","0","B"," ","7","0","9","B"," ","4","5","7","B"," ","2","0",".","3","K","B">>
\* 'hostB <= 0B 5.69KB 1.71KB 71.4KB'
L_S1 ==
  <<"h","o","s","t","B"," ","<","="," ","0","B"," ","5",".","6","9","K","B"," ","1",".","7","1","K","B"," ","7","1",".","4","K","B">>
\* '  12 hC\t=>  1B 2B 20.3KB 4BB'
L_F2 ==
  <<" "," ","1","2"," ","h","C","\t","=",">"," "," ","1","B"," ","2","B"," ","2","0",".","3","K","B"," ","4","B","B">>
\* ' hD <= 5B 6B 0B 8KB x'
L_S2 ==
  <<" ","h","D"," ","<","="," ","5","B"," ","6","B"," ","0","B"," ","8","K","B"," ","x">>
\* '1 hostA => 0B 709B 457B'   (only three byte tokens)
L_F3 ==
  <<"1"," ","h","o","s","t","A"," ","=",">"," ","0","B"," ","7","0","9","B"," ","4","5","7","B">>
\* '18446744073709551616 h => 0B 0B 0B 0B'   (rank is 2^64)
L_BIG ==
  <<"1","8","4","4","6","7","4","4","0","7","3","7","0","9","5","5","1","6","1","6"," ","h"," ","=",">"," ","0","B"," ","0","B"," ","0","B"," ","0","B">>
\* 'Total:'
L_TXT ==
  <<"T","o","t","a","l",":">>
\* ''
L_EMPTY ==
  <<>>

Catalogue ==
  {L_SEP, L_END, L_F1, L_S1, L_F2, L_S2, L_F3, L_BIG, L_TXT, L_EMPTY}

(***************************************************************************)
(* Character classes of the regex crate, restricted to the characters of   *)
(* the catalogue.                                                          *)
(***************************************************************************)
Digit ==
  {"0","1","2","3","4","5","6","7","8","9"}

Ws ==
  {" ", "\t"}

IsWs(c) ==
  c \in Ws

IsNonWs(c) ==
  c \notin Ws

IsDigit(c) ==
  c \in Digit

\* last index of the maximal run of characters of a class that starts at i
\* (i - 1 when the run is empty): a greedy `+` / `*` over a character class
RECURSIVE RunEndWs(_, _)
RunEndWs(l, i) ==
  IF i <= Len(l) /\ IsWs(l[i]) THEN RunEndWs(l, i + 1) ELSE i - 1

RECURSIVE RunEndNonWs(_, _)
RunEndNonWs(l, i) ==
  IF i <= Len(l) /\ IsNonWs(l[i]) THEN RunEndNonWs(l, i + 1) ELSE i - 1

RECURSIVE RunEndDigit(_, _)
RunEndDigit(l, i) ==
  IF i <= Len(l) /\ IsDigit(l[i]) THEN RunEndDigit(l, i + 1) ELSE i - 1

NoMatch ==
  [ok |-> FALSE, g |-> <<>>, next |-> 0]

\* R_SEPARATOR = ^-+$
R_SEPARATOR_is_match(l) ==
  /\ Len(l) >= 1
  /\ \A i \in 1..Len(l) : l[i] = "-"

\* R_END = ^=+$
R_END_is_match(l) ==
  /\ Len(l) >= 1
  /\ \A i \in 1..Len(l) : l[i] = "="

\* ByteTokenInner with the literal `B` inside the capture group
ByteTokenInner_KeepSuffix(l, i) ==
  LET e == RunEndNonWs(l, i)
      w == RunEndWs(l, e + 1)
  IN  IF e >= i + 1 /\ l[e] = "B" /\ w >= e + 1
      THEN [ok |-> TRUE, g |-> <<SubSeq(l, i, e)>>, next |-> w + 1]
      ELSE [ok |-> FALSE, g |-> <<>>, next |-> 0]

\* `(\S+)B\s+` at index i: the greedy \S+ takes the whole run, gives back its
\* last character to `B`, and at least one whitespace character must follow
ByteTokenInner(l, i) ==
  LET e == RunEndNonWs(l, i)
      w == RunEndWs(l, e + 1)
  IN  IF e >= i + 1 /\ l[e] = "B" /\ w >= e + 1
      THEN [ok |-> TRUE, g |-> <<SubSeq(l, i, e - 1)>>, next |-> w + 1]
      ELSE NoMatch

\* `(\S+)B` at the end of the pattern, index i: the greedy \S+ backtracks to
\* the last `B` of the run that leaves it at least one character
ByteTokenLast(l, i) ==
  LET e == RunEndNonWs(l, i)
      bs == {b \in (i + 1)..e : l[b] = "B"}
  IN  IF bs # {}
      THEN LET b == CHOOSE x \in bs : \A y \in bs : y <= x
           IN  [ok |-> TRUE, g |-> <<SubSeq(l, i, b - 1)>>, next |-> b + 1]
      ELSE NoMatch

\* `(\S+)B\s+(\S+)B\s+(\S+)B\s+(\S+)B` at index i
FourByteTokens(l, i) ==
  LET t1 == ByteTokenInner(l, i)
  IN  IF ~t1.ok THEN NoMatch ELSE
      LET t2 == ByteTokenInner(l, t1.next)
      IN  IF ~t2.ok THEN NoMatch ELSE
          LET t3 == ByteTokenInner(l, t2.next)
          IN  IF ~t3.ok THEN NoMatch ELSE
              LET t4 == ByteTokenLast(l, t3.next)
              IN  IF ~t4.ok THEN NoMatch
                  ELSE [ok |-> TRUE, g |-> t1.g \o t2.g \o t3.g \o t4.g,
                        next |-> t4.next]

\* `\s+<arrow>\s+` followed by the four byte tokens, at index i
ArrowAndBytes(l, i, a1, a2) ==
  LET w1 == RunEndWs(l, i)
      w2 == RunEndWs(l, w1 + 3)
  IN  IF /\ w1 >= i
         /\ w1 + 2 <= Len(l) /\ l[w1 + 1] = a1 /\ l[w1 + 2] = a2
         /\ w2 >= w1 + 3
      THEN FourByteTokens(l, w2 + 1)
      ELSE NoMatch

\* R_FIRSTLINE anchored at index s:
\* (\d+)\s+(\S+)\s+=>\s+(\S+)B\s+(\S+)B\s+(\S+)B\s+(\S+)B
FirstlineAt(l, s) ==
  LET d == RunEndDigit(l, s)
      w == RunEndWs(l, d + 1)
      n == RunEndNonWs(l, w + 1)
  IN  IF d >= s /\ w >= d + 1 /\ n >= w + 1
      THEN LET rest == ArrowAndBytes(l, n + 1, "=", ">")
           IN  IF rest.ok
               THEN [ok |-> TRUE,
                     g |-> <<SubSeq(l, s, d), SubSeq(l, w + 1, n)>> \o rest.g,
                     next |-> rest.next]
               ELSE NoMatch
      ELSE NoMatch

\* R_SECONDLINE anchored at index s:
\* (\S+)\s+<=\s+(\S+)B\s+(\S+)B\s+(\S+)B\s+(\S+)B
SecondlineAt(l, s) ==
  LET n == RunEndNonWs(l, s)
  IN  IF n >= s
      THEN LET rest == ArrowAndBytes(l, n + 1, "<", "=")
           IN  IF rest.ok
               THEN [ok |-> TRUE, g |-> <<SubSeq(l, s, n)>> \o rest.g,
                     next |-> rest.next]
               ELSE NoMatch
      ELSE NoMatch

\* R_FIRSTLINE.captures(l): the pattern is not anchored, the match is the one
\* with the leftmost start
R_FIRSTLINE_captures(l) ==
  LET starts == {s \in 1..Len(l) : FirstlineAt(l, s).ok}
  IN  IF starts = {} THEN NoMatch
      ELSE FirstlineAt(l, CHOOSE s \in starts : \A t \in starts : s <= t)

\* R_SECONDLINE.captures(l)
R_SECONDLINE_captures(l) ==
  LET starts == {s \in 1..Len(l) : SecondlineAt(l, s).ok}
  IN  IF starts = {} THEN NoMatch
      ELSE SecondlineAt(l, CHOOSE s \in starts : \A t \in starts : s <= t)

\* the four patterns applied to every line of the catalogue, computed once
SeparatorMatch ==
  [l \in Catalogue |-> R_SEPARATOR_is_match(l)]

EndMatch ==
  [l \in Catalogue |-> R_END_is_match(l)]

FirstlineCaptures ==
  [l \in Catalogue |-> R_FIRSTLINE_captures(l)]

SecondlineCaptures ==
  [l \in Catalogue |-> R_SECONDLINE_captures(l)]

(***************************************************************************)
(* str::parse::<u64>() on a run of ASCII digits.                           *)
(***************************************************************************)
\* '18446744073709551615' = u64::MAX
U64MaxDigits ==
  <<"1","8","4","4","6","7","4","4","0","7","3","7","0","9","5","5","1","6","1","5">>

DigitVal(c) ==
  CASE c = "0" -> 0 [] c = "1" -> 1 [] c = "2" -> 2 [] c = "3" -> 3
    [] c = "4" -> 4 [] c = "5" -> 5 [] c = "6" -> 6 [] c = "7" -> 7
    [] c = "8" -> 8 [] c = "9" -> 9

RECURSIVE StripZeros(_)
StripZeros(ds) ==
  IF Len(ds) > 1 /\ ds[1] = "0" THEN StripZeros(Tail(ds)) ELSE ds

\* a <= b for digit strings of the same length
RECURSIVE DigitsLeq(_, _)
DigitsLeq(a, b) ==
  IF a = <<>> THEN TRUE
  ELSE IF DigitVal(a[1]) # DigitVal(b[1]) THEN DigitVal(a[1]) < DigitVal(b[1])
  ELSE DigitsLeq(Tail(a), Tail(b))

RECURSIVE DecimalValue(_)
DecimalValue(ds) ==
  IF ds = <<>> THEN 0
  ELSE 10 * DecimalValue(SubSeq(ds, 1, Len(ds) - 1)) + DigitVal(ds[Len(ds)])

\* Ok(value), or Err when the value does not fit in 64 bits
ParseU64(ds) ==
  LET sig == StripZeros(ds)
  IN  IF \/ Len(sig) < Len(U64MaxDigits)
         \/ Len(sig) = Len(U64MaxDigits) /\ DigitsLeq(sig, U64MaxDigits)
      THEN [ok |-> TRUE, val |-> DecimalValue(sig)]
      ELSE [ok |-> FALSE, val |-> 0]

(***************************************************************************)
(* Data of the program.                                                    *)
(***************************************************************************)
None ==
  [some |-> FALSE, val |-> <<>>]

Some(v) ==
  [some |-> TRUE, val |-> v]

\* Record with the volumes taken from the last byte-magnitude group
Record_LastGroup(rank, firstline, secondline) ==
  [rank |-> rank,
   local_name |-> firstline.g[2],
   outbound_40s_bytes |-> firstline.g[6],
   remote_name |-> secondline.g[1],
   inbound_40s_bytes |-> secondline.g[5]]

\* the Record built from the captures of a matched pair; rank is the parsed
\* value of group 1 of the first line
Record(rank, firstline, secondline) ==
  [rank |-> rank,
   local_name |-> firstline.g[2],
   outbound_40s_bytes |-> firstline.g[5],
   remote_name |-> secondline.g[1],
   inbound_40s_bytes |-> secondline.g[4]]

Output(records) ==
  [records |-> records]

VARIABLES
  input,    \* the lines the source yields over its lifetime, in order
  pos,      \* number of lines pulled from the iterator so far
  pc,       \* "main", "loop", "returned", "done" or "panicked"
  state,    \* ParseState of the running parse_input call
  r,        \* the accumulator carried by ParseState::Records
  records,  \* the local `records` of parse_input
  ret,      \* value returned by the last parse_input call
  outputs,  \* the Outputs printed by main, in order
  panic,    \* which panic ended the run ("" when none)
  callStarts, \* history: value of pos at the start of every parse_input call
  roles     \* history: for each pulled line, how the loop consumed it

vars ==
  <<input, pos, pc, state, r, records, ret, outputs, panic, callStarts, roles>>

(***************************************************************************)
(* The streams the line source may hold.                                   *)
(***************************************************************************)
SeqsUpTo(S, n) ==
  UNION {[1..k -> S] : k \in 0..n}

RECURSIVE Flatten(_)
Flatten(ss) ==
  IF ss = <<>> THEN <<>> ELSE Head(ss) \o Flatten(Tail(ss))

\* lines that form a record pair: both patterns match and the rank parses
PairLines ==
  {<<f, s>> : f \in {l \in Catalogue : /\ R_FIRSTLINE_captures(l).ok
                                       /\ ParseU64(R_FIRSTLINE_captures(l).g[1]).ok},
              s \in {l \in Catalogue : R_SECONDLINE_captures(l).ok}}

\* no line, or one line of S
Optional(S) ==
  {<<>>} \cup {<<l>> : l \in S}

\* preamble, separator, pairs, separator, postamble, end marker
CycleSet(pres, maxPairs, posts) ==
  {pre \o <<L_SEP>> \o Flatten(ps) \o <<L_SEP>> \o post \o <<L_END>> :
     pre \in pres, ps \in SeqsUpTo(PairLines, maxPairs), post \in posts}

PreambleLines ==
  {l \in Catalogue : ~R_SEPARATOR_is_match(l)}

PostambleLines ==
  {l \in Catalogue : ~R_END_is_match(l)}

\* arbitrary lines met in each parser state: at the start of the stream, in
\* an empty Records section, after one recorded pair, and in the postamble
ArbitraryStreams ==
  {h \o a : h \in {<<>>, <<L_SEP>>, <<L_SEP, L_F2, L_S1>>,
                   <<L_SEP, L_F1, L_S2, L_SEP>>},
            a \in SeqsUpTo(Catalogue, MaxLines)}

\* well-formed cycles with a preamble line, a postamble line, or both
CycleStreams ==
  CycleSet(Optional(PreambleLines), MaxPairs, {<<>>})
    \cup CycleSet({<<>>}, MaxPairs, Optional(PostambleLines))
    \cup CycleSet({<<L_TXT>>, <<L_F1>>}, MaxPairs, {<<L_TXT>>, <<L_SEP>>})

\* a recorded pair, then a first line with any partner, then more lines
RaggedStreams ==
  {<<L_SEP, L_F2, L_S1, f, x>> \o t :
     f \in {l \in Catalogue : R_FIRSTLINE_captures(l).ok},
     x \in Catalogue,
     t \in Optional(Catalogue) \cup {<<L_F1, L_S1, L_SEP, L_END>>}}

\* two well-formed cycles, one after the other
TwoCycleStreams ==
  {a \o b :
     a \in {<<L_SEP>> \o Flatten(ps) \o <<L_SEP>> \o post \o <<L_END>> :
              ps \in SeqsUpTo({<<L_F1, L_S1>>, <<L_F2, L_S2>>}, MaxPairs2),
              post \in Optional(PostambleLines)},
     b \in {<<L_SEP>> \o Flatten(ps) \o <<L_SEP, L_END>> :
              ps \in SeqsUpTo({<<L_F1, L_S1>>, <<L_F2, L_S2>>}, MaxPairs2)}}

\* a Records section holding one pair that is dropped, then closed
DroppedPairStreams ==
  {<<L_SEP, f, x, L_SEP>> \o t :
     f \in {l \in Catalogue : R_FIRSTLINE_captures(l).ok},
     x \in {l \in Catalogue : ~R_SECONDLINE_captures(l).ok},
     t \in Optional({L_END, L_TXT})}

Inputs ==
  ArbitraryStreams \cup CycleStreams \cup RaggedStreams \cup TwoCycleStreams
    \cup DroppedPairStreams

(***************************************************************************)
(* The program.                                                            *)
(***************************************************************************)
Init ==
  /\ input \in Inputs
  /\ pos = 0
  /\ pc = "main"
  /\ state = "Preamble"
  /\ r = <<>>
  /\ records = None
  /\ ret = None
  /\ outputs = <<>>
  /\ panic = ""
  /\ callStarts = <<>>
  /\ roles = <<>>

\* ParseInputCall with the locals of the previous call left in place
ParseInputCall_KeepLocals ==
  /\ pc = "main"
  /\ pc' = "loop"
  /\ callStarts' = Append(callStarts, pos)
  /\ UNCHANGED <<input, pos, state, r, records, ret, outputs, panic, roles>>

\* main calls timed_parse, which calls parse_input: fresh locals
ParseInputCall ==
  /\ pc = "main"
  /\ pc' = "loop"
  /\ state' = "Preamble"
  /\ r' = <<>>
  /\ records' = None
  /\ callStarts' = Append(callStarts, pos)
  /\ UNCHANGED <<input, pos, ret, outputs, panic, roles>>

\* PreambleLine with a line matching R_FIRSTLINE opening the Records section
PreambleLine_OpenOnFirstline ==
  /\ pc = "loop" /\ state = "Preamble" /\ pos < Len(input)
  /\ state' = IF \/ SeparatorMatch[input[pos + 1]]
                 \/ FirstlineCaptures[input[pos + 1]].ok
              THEN "Records" ELSE state
  /\ r' = <<>>
  /\ pos' = pos + 1
  /\ roles' = Append(roles, "Preamble")
  /\ UNCHANGED <<input, pc, records, ret, outputs, panic, callStarts>>

\* ParseState::Preamble arm
PreambleLine ==
  /\ pc = "loop" /\ state = "Preamble" /\ pos < Len(input)
  /\ LET l == input[pos + 1]
     IN  state' = IF SeparatorMatch[l] THEN "Records" ELSE state
  /\ r' = <<>>
  /\ pos' = pos + 1
  /\ roles' = Append(roles, "Preamble")
  /\ UNCHANGED <<input, pc, records, ret, outputs, panic, callStarts>>

\* RecordsSeparator with an empty accumulator finalized as no cycle at all
RecordsSeparator_EmptyIsNone ==
  /\ pc = "loop" /\ state = "Records" /\ pos < Len(input)
  /\ SeparatorMatch[input[pos + 1]]
  /\ records' = IF r = <<>> THEN None ELSE Some(r)
  /\ state' = "Postamble"
  /\ r' = <<>>
  /\ pos' = pos + 1
  /\ roles' = Append(roles, "Records")
  /\ UNCHANGED <<input, pc, ret, outputs, panic, callStarts>>

\* ParseState::Records arm, separator line
RecordsSeparator ==
  /\ pc = "loop" /\ state = "Records" /\ pos < Len(input)
  /\ SeparatorMatch[input[pos + 1]]
  /\ records' = Some(r)
  /\ state' = "Postamble"
  /\ r' = <<>>
  /\ pos' = pos + 1
  /\ roles' = Append(roles, "Records")
  /\ UNCHANGED <<input, pc, ret, outputs, panic, callStarts>>

\* RecordsFirstlineNoPartner with the missing partner treated as end of input
RecordsFirstlineNoPartner_ReturnNone ==
  /\ pc = "loop" /\ state = "Records" /\ pos + 1 = Len(input)
  /\ ~SeparatorMatch[input[pos + 1]]
  /\ FirstlineCaptures[input[pos + 1]].ok
  /\ pc' = "returned"
  /\ ret' = records
  /\ pos' = pos + 1
  /\ roles' = Append(roles, "Records")
  /\ UNCHANGED <<input, state, r, records, outputs, panic, callStarts>>

\* ParseState::Records arm, line matching R_FIRSTLINE, no line left for
\* lines.next().unwrap()
RecordsFirstlineNoPartner ==
  /\ pc = "loop" /\ state = "Records" /\ pos + 1 = Len(input)
  /\ ~SeparatorMatch[input[pos + 1]]
  /\ FirstlineCaptures[input[pos + 1]].ok
  /\ pc' = "panicked"
  /\ panic' = "unwrap on None"
  /\ pos' = pos + 1
  /\ roles' = Append(roles, "Records")
  /\ UNCHANGED <<input, state, r, records, ret, outputs, callStarts>>

\* RecordsPairMatched with the new record put in front of the accumulator
RecordsPairMatched_Prepend ==
  /\ pc = "loop" /\ state = "Records" /\ pos + 1 < Len(input)
  /\ ~SeparatorMatch[input[pos + 1]]
  /\ \E firstline \in {FirstlineCaptures[input[pos + 1]]},
        secondline \in {SecondlineCaptures[input[pos + 2]]} :
       /\ firstline.ok
       /\ secondline.ok
       /\ \E rank \in {ParseU64(firstline.g[1])} :
            /\ rank.ok
            /\ r' = <<Record(rank.val, firstline, secondline)>> \o r
  /\ pos' = pos + 2
  /\ roles' = roles \o <<"Records", "Partner">>
  /\ UNCHANGED <<input, pc, state, records, ret, outputs, panic, callStarts>>

\* ParseState::Records arm, line matching R_FIRSTLINE, partner pulled and
\* matching R_SECONDLINE, rank parsed: the record is pushed
RecordsPairMatched ==
  /\ pc = "loop" /\ state = "Records" /\ pos + 1 < Len(input)
  /\ ~SeparatorMatch[input[pos + 1]]
  /\ \E firstline \in {FirstlineCaptures[input[pos + 1]]},
        secondline \in {SecondlineCaptures[input[pos + 2]]} :
       /\ firstline.ok
       /\ secondline.ok
       /\ \E rank \in {ParseU64(firstline.g[1])} :
            /\ rank.ok
            /\ r' = Append(r, Record(rank.val, firstline, secondline))
  /\ pos' = pos + 2
  /\ roles' = roles \o <<"Records", "Partner">>
  /\ UNCHANGED <<input, pc, state, records, ret, outputs, panic, callStarts>>

\* ParseState::Records arm, line matching R_FIRSTLINE, partner pulled and
\* matching R_SECONDLINE, rank not a u64: parse().unwrap() panics
RecordsPairRankOverflow ==
  /\ pc = "loop" /\ state = "Records" /\ pos + 1 < Len(input)
  /\ ~SeparatorMatch[input[pos + 1]]
  /\ \E firstline \in {FirstlineCaptures[input[pos + 1]]},
        secondline \in {SecondlineCaptures[input[pos + 2]]} :
       /\ firstline.ok
       /\ secondline.ok
       /\ ~ParseU64(firstline.g[1]).ok
  /\ pc' = "panicked"
  /\ panic' = "unwrap on Err"
  /\ pos' = pos + 2
  /\ roles' = roles \o <<"Records", "Partner">>
  /\ UNCHANGED <<input, state, r, records, ret, outputs, callStarts>>

\* RecordsPairDropped with a failed pairing treated as fatal
RecordsPairDropped_Panic ==
  /\ pc = "loop" /\ state = "Records" /\ pos + 1 < Len(input)
  /\ ~SeparatorMatch[input[pos + 1]]
  /\ FirstlineCaptures[input[pos + 1]].ok
  /\ ~SecondlineCaptures[input[pos + 2]].ok
  /\ pc' = "panicked"
  /\ panic' = "unwrap on None"
  /\ pos' = pos + 2
  /\ roles' = roles \o <<"Records", "Partner">>
  /\ UNCHANGED <<input, state, r, records, ret, outputs, callStarts>>

\* RecordsPairDropped with a record built from the first line alone
RecordsPairDropped_PushPartial ==
  /\ pc = "loop" /\ state = "Records" /\ pos + 1 < Len(input)
  /\ ~SeparatorMatch[input[pos + 1]]
  /\ FirstlineCaptures[input[pos + 1]].ok
  /\ ~SecondlineCaptures[input[pos + 2]].ok
  /\ r' = Append(r, [rank |-> 0,
                     local_name |-> FirstlineCaptures[input[pos + 1]].g[2],
                     outbound_40s_bytes |-> FirstlineCaptures[input[pos + 1]].g[5],
                     remote_name |-> <<>>,
                     inbound_40s_bytes |-> <<>>])
  /\ pos' = pos + 2
  /\ roles' = roles \o <<"Records", "Partner">>
  /\ UNCHANGED <<input, pc, state, records, ret, outputs, panic, callStarts>>

\* RecordsPairDropped with the failed partner left for the next loop step
RecordsPairDropped_Reexamine ==
  /\ pc = "loop" /\ state = "Records" /\ pos + 1 < Len(input)
  /\ ~SeparatorMatch[input[pos + 1]]
  /\ FirstlineCaptures[input[pos + 1]].ok
  /\ ~SecondlineCaptures[input[pos + 2]].ok
  /\ pos' = pos + 1
  /\ roles' = Append(roles, "Records")
  /\ UNCHANGED <<input, pc, state, r, records, ret, outputs, panic, callStarts>>

\* ParseState::Records arm, line matching R_FIRSTLINE, partner pulled and
\* not matching R_SECONDLINE
RecordsPairDropped ==
  /\ pc = "loop" /\ state = "Records" /\ pos + 1 < Len(input)
  /\ ~SeparatorMatch[input[pos + 1]]
  /\ FirstlineCaptures[input[pos + 1]].ok
  /\ ~SecondlineCaptures[input[pos + 2]].ok
  /\ pos' = pos + 2
  /\ roles' = roles \o <<"Records", "Partner">>
  /\ UNCHANGED <<input, pc, state, r, records, ret, outputs, panic, callStarts>>

\* RecordsUnrecognized with the line skipped instead of the panic
RecordsUnrecognized_Skip ==
  /\ pc = "loop" /\ state = "Records" /\ pos < Len(input)
  /\ ~SeparatorMatch[input[pos + 1]]
  /\ ~FirstlineCaptures[input[pos + 1]].ok
  /\ pos' = pos + 1
  /\ roles' = Append(roles, "Records")
  /\ UNCHANGED <<input, pc, state, r, records, ret, outputs, panic, callStarts>>

\* ParseState::Records arm, any other line
RecordsUnrecognized ==
  /\ pc = "loop" /\ state = "Records" /\ pos < Len(input)
  /\ ~SeparatorMatch[input[pos + 1]]
  /\ ~FirstlineCaptures[input[pos + 1]].ok
  /\ pc' = "panicked"
  /\ panic' = "Unrecognized line in records input"
  /\ pos' = pos + 1
  /\ roles' = Append(roles, "Records")
  /\ UNCHANGED <<input, state, r, records, ret, outputs, callStarts>>

\* PostambleLine with a separator line opening a new Records section
PostambleLine_Reopen ==
  /\ pc = "loop" /\ state = "Postamble" /\ pos < Len(input)
  /\ IF EndMatch[input[pos + 1]]
     THEN /\ pc' = "returned"
          /\ ret' = records
          /\ UNCHANGED state
     ELSE /\ UNCHANGED <<pc, ret>>
          /\ state' = IF SeparatorMatch[input[pos + 1]] THEN "Records" ELSE state
  /\ pos' = pos + 1
  /\ roles' = Append(roles, "Postamble")
  /\ UNCHANGED <<input, r, records, outputs, panic, callStarts>>

\* PostambleLine with a line that is not an end marker left at the head of
\* the source
PostambleLine_Stall ==
  /\ pc = "loop" /\ state = "Postamble" /\ pos < Len(input)
  /\ IF EndMatch[input[pos + 1]]
     THEN /\ pc' = "returned"
          /\ ret' = records
          /\ pos' = pos + 1
          /\ roles' = Append(roles, "Postamble")
     ELSE UNCHANGED <<pc, ret, pos, roles>>
  /\ UNCHANGED <<input, state, r, records, outputs, panic, callStarts>>

\* PostambleLine with a separator line ending the cycle like an end marker
PostambleLine_ReturnOnSeparator ==
  /\ pc = "loop" /\ state = "Postamble" /\ pos < Len(input)
  /\ IF EndMatch[input[pos + 1]] \/ SeparatorMatch[input[pos + 1]]
     THEN /\ pc' = "returned"
          /\ ret' = records
     ELSE UNCHANGED <<pc, ret>>
  /\ pos' = pos + 1
  /\ roles' = Append(roles, "Postamble")
  /\ UNCHANGED <<input, state, r, records, outputs, panic, callStarts>>

\* ParseState::Postamble arm: break on the end marker
PostambleLine ==
  /\ pc = "loop" /\ state = "Postamble" /\ pos < Len(input)
  /\ IF EndMatch[input[pos + 1]]
     THEN /\ pc' = "returned"
          /\ ret' = records
     ELSE UNCHANGED <<pc, ret>>
  /\ pos' = pos + 1
  /\ roles' = Append(roles, "Postamble")
  /\ UNCHANGED <<input, state, r, records, outputs, panic, callStarts>>

\* Exhausted with the unfinished accumulator returned
Exhausted_ReturnAccumulator ==
  /\ pc = "loop" /\ pos = Len(input)
  /\ pc' = "returned"
  /\ ret' = IF state = "Records" THEN Some(r) ELSE records
  /\ UNCHANGED <<input, pos, state, r, records, outputs, panic, callStarts, roles>>

\* Exhausted with a cycle that saw no end marker reported as no cycle
Exhausted_NoneWithoutEndMarker ==
  /\ pc = "loop" /\ pos = Len(input)
  /\ pc' = "returned"
  /\ ret' = None
  /\ UNCHANGED <<input, pos, state, r, records, outputs, panic, callStarts, roles>>

\* lines.next() is None at the head of the loop: fall out and return records
Exhausted ==
  /\ pc = "loop" /\ pos = Len(input)
  /\ pc' = "returned"
  /\ ret' = records
  /\ UNCHANGED <<input, pos, state, r, records, outputs, panic, callStarts, roles>>

\* MainPrint with a cycle that holds no record not printed
MainPrint_SkipEmpty ==
  /\ pc = "returned" /\ ret.some
  /\ outputs' = IF ret.val = <<>> THEN outputs ELSE Append(outputs, Output(ret.val))
  /\ pc' = "main"
  /\ UNCHANGED <<input, pos, state, r, records, ret, panic, callStarts, roles>>

\* timed_parse maps Some(records) to an Output, main prints it and loops
MainPrint ==
  /\ pc = "returned" /\ ret.some
  /\ outputs' = Append(outputs, Output(ret.val))
  /\ pc' = "main"
  /\ UNCHANGED <<input, pos, state, r, records, ret, panic, callStarts, roles>>

\* timed_parse returned None: the while-let of main ends
MainExit ==
  /\ pc = "returned" /\ ~ret.some
  /\ pc' = "done"
  /\ UNCHANGED <<input, pos, state, r, records, ret, outputs, panic, callStarts, roles>>

Next ==
  \/ ParseInputCall
  \/ PreambleLine
  \/ RecordsSeparator
  \/ RecordsFirstlineNoPartner
  \/ RecordsPairMatched
  \/ RecordsPairRankOverflow
  \/ RecordsPairDropped
  \/ RecordsUnrecognized
  \/ PostambleLine
  \/ Exhausted
  \/ MainPrint
  \/ MainExit

Spec ==
  Init /\ [][Next]_vars

\* the program keeps running while it has a step to take: main, timed_parse
\* and parse_input are one sequential thread and the source is finite
FairSpec ==
  Spec /\ WF_vars(Next)

TypeOK ==
  /\ pos \in 0..Len(input)
  /\ pc \in {"main", "loop", "returned", "done", "panicked"}
  /\ state \in {"Preamble", "Records", "Postamble"}
  /\ Len(roles) = pos

(***************************************************************************)
(* Vocabulary of the properties.  Lines are read here as whitespace-       *)
(* separated tokens, independently of the matchers above.                  *)
(***************************************************************************)
RECURSIVE Tokens(_)
Tokens(l) ==
  IF l = <<>> THEN <<>>
  ELSE IF l[1] \in Ws THEN Tokens(Tail(l))
  ELSE LET ends == {e \in 1..Len(l) : \A k \in 1..e : l[k] \notin Ws}
           e == CHOOSE x \in ends : \A y \in ends : y <= x
       IN  <<SubSeq(l, 1, e)>> \o Tokens(SubSeq(l, e + 1, Len(l)))

ForwardArrow ==
  <<"=", ">">>

ReverseArrow ==
  <<"<", "=">>

\* the tokens of every line of the catalogue
TokensOf ==
  [l \in Catalogue |-> Tokens(l)]

\* index of the arrow token of a record line
ArrowIndex(l, arrow) ==
  CHOOSE i \in 1..Len(TokensOf[l]) :
    /\ TokensOf[l][i] = arrow
    /\ \A j \in 1..(i - 1) : TokensOf[l][j] # arrow

\* the token at the p-th of the four byte-token positions
ByteToken(l, arrow, p) ==
  TokensOf[l][ArrowIndex(l, arrow) + p]

\* the endpoint name: the token before the arrow
NameToken(l, arrow) ==
  TokensOf[l][ArrowIndex(l, arrow) - 1]

\* the rank: the number written before the local name
RankToken(l) ==
  TokensOf[l][ArrowIndex(l, ForwardArrow) - 2]

IsSeparatorLine(l) ==
  l # <<>> /\ \A i \in DOMAIN l : l[i] = "-"

IsEndMarker(l) ==
  l # <<>> /\ \A i \in DOMAIN l : l[i] = "="

\* a valid first-line / second-line pair
IsRecordPair(f, s) ==
  /\ FirstlineCaptures[f].ok
  /\ ParseU64(FirstlineCaptures[f].g[1]).ok
  /\ SecondlineCaptures[s].ok

\* least index in (from, Len(input)] whose line satisfies P, 0 when none
FirstAfter(from, P(_)) ==
  LET hits == {i \in (from + 1)..Len(input) : P(input[i])}
  IN  IF hits = {} THEN 0 ELSE CHOOSE i \in hits : \A j \in hits : i <= j

\* The shape of the well-formed cycle that starts right after line `from`, if
\* there is one: open and close are the indices of its two separator lines,
\* last the index of its end marker.
CycleAt(from) ==
  LET open == FirstAfter(from, IsSeparatorLine)
      close == IF open = 0 THEN 0 ELSE FirstAfter(open, IsSeparatorLine)
      last == IF close = 0 THEN 0 ELSE FirstAfter(close, IsEndMarker)
  IN  [wf |-> /\ last # 0
              /\ (close - open - 1) % 2 = 0
              /\ \A k \in 1..((close - open - 1) \div 2) :
                   IsRecordPair(input[open + 2 * k - 1], input[open + 2 * k]),
       open |-> open, close |-> close, last |-> last,
       n |-> (close - open - 1) \div 2]

\* start of the parse_input call that is running or ran last
CallStart ==
  callStarts[Len(callStarts)]

\* C1: for every well-formed cycle (preamble without separator, separator,
\* N >= 0 valid pairs, separator, postamble without end marker, end marker) one
\* parse_input call does not fail, consumes exactly the cycle and returns
\* exactly N records in input order, the k-th with the rank and local name of
\* the k-th first line and the remote name of the k-th second line.
C1_WellFormedCycleRecords ==
  (callStarts # <<>> /\ CycleAt(CallStart).wf) =>
    LET c == CycleAt(CallStart)
    IN  /\ pc # "panicked"
        /\ pos <= c.last
        /\ pc # "loop" =>
             /\ pos = c.last
             /\ ret.some
             /\ Len(ret.val) = c.n
             /\ \A k \in 1..c.n :
                  LET f == input[c.open + 2 * k - 1]
                      s == input[c.open + 2 * k]
                  IN  /\ ret.val[k].rank = DecimalValue(RankToken(f))
                      /\ ret.val[k].local_name = NameToken(f, ForwardArrow)
                      /\ ret.val[k].remote_name = NameToken(s, ReverseArrow)

\* a well-formed cycle with preamble, two different pairs and postamble has
\* been returned
C1_Witness ==
  /\ pc = "returned"
  /\ callStarts # <<>>
  /\ CycleAt(CallStart).wf
  /\ CycleAt(CallStart).n = 2
  /\ CycleAt(CallStart).open > CallStart + 1
  /\ CycleAt(CallStart).last > CycleAt(CallStart).close + 1
  /\ Len(ret.val) = 2
  /\ ret.val[1].rank = 12
  /\ ret.val[2].rank = 1

\* the last loop step built a record from the pair input[pos - 1], input[pos]
JustPaired ==
  /\ pc = "loop" /\ state = "Records"
  /\ pos >= 2 /\ roles[pos] = "Partner"
  /\ IsRecordPair(input[pos - 1], input[pos])

\* a record field that holds a token, with or without its unit suffix
FromToken(field, token) ==
  field = token \/ field \o <<"B">> = token

\* C2 as claimed: local_volume is the token at the fourth byte-token
\* position of the first line and remote_volume the token at the fourth
\* position of the second line.
C2_FourthPositionSelected ==
  JustPaired =>
    /\ r # <<>>
    /\ FromToken(r[Len(r)].outbound_40s_bytes,
                 ByteToken(input[pos - 1], ForwardArrow, 4))
    /\ FromToken(r[Len(r)].inbound_40s_bytes,
                 ByteToken(input[pos], ReverseArrow, 4))

\* C2 as amended: local_volume is the token at the third of the four
\* byte-token positions of the first line and remote_volume the token at the
\* third position of the second line; a token at another position that differs
\* from it is not what the record holds.
C2_ThirdPositionSelected ==
  JustPaired =>
    /\ r # <<>>
    /\ FromToken(r[Len(r)].outbound_40s_bytes,
                 ByteToken(input[pos - 1], ForwardArrow, 3))
    /\ FromToken(r[Len(r)].inbound_40s_bytes,
                 ByteToken(input[pos], ReverseArrow, 3))
    /\ \A p \in {1, 2, 4} :
         /\ ByteToken(input[pos - 1], ForwardArrow, p)
              # ByteToken(input[pos - 1], ForwardArrow, 3)
            => ~FromToken(r[Len(r)].outbound_40s_bytes,
                          ByteToken(input[pos - 1], ForwardArrow, p))
         /\ ByteToken(input[pos], ReverseArrow, p)
              # ByteToken(input[pos], ReverseArrow, 3)
            => ~FromToken(r[Len(r)].inbound_40s_bytes,
                          ByteToken(input[pos], ReverseArrow, p))

\* the pair of the example has just been recorded: its volumes are 457 and
\* 1.71K, from the third tokens 457B and 1.71KB
C2_Witness ==
  /\ JustPaired
  /\ input[pos - 1] = L_F1
  /\ input[pos] = L_S1
  /\ r[Len(r)].outbound_40s_bytes = <<"4", "5", "7">>
  /\ r[Len(r)].inbound_40s_bytes = <<"1", ".", "7", "1", "K">>

\* C9: a volume field is one of the line's byte-magnitude tokens with the
\* trailing unit suffix B removed and the rest of the token unchanged.
C9_UnitSuffixStripped ==
  JustPaired =>
    /\ r # <<>>
    /\ \E p \in 1..4 :
         r[Len(r)].outbound_40s_bytes \o <<"B">>
           = ByteToken(input[pos - 1], ForwardArrow, p)
    /\ \E p \in 1..4 :
         r[Len(r)].inbound_40s_bytes \o <<"B">>
           = ByteToken(input[pos], ReverseArrow, p)

\* the tokens 20.3KB and 0B have been stored as 20.3K and 0
C9_Witness ==
  /\ JustPaired
  /\ input[pos - 1] = L_F2
  /\ input[pos] = L_S2
  /\ r[Len(r)].outbound_40s_bytes = <<"2", "0", ".", "3", "K">>
  /\ r[Len(r)].inbound_40s_bytes = <<"0">>

\* C3: in the Records state a line that matches neither the separator pattern
\* nor the first-line pattern (an end marker and an empty line included) makes
\* parse_input panic: nothing is returned and nothing is printed, then or later.
C3_UnrecognizedLineAborts ==
  [][/\ (/\ pc = "loop" /\ state = "Records" /\ pos < Len(input)
         /\ \/ ~SeparatorMatch[input[pos + 1]] /\ ~FirstlineCaptures[input[pos + 1]].ok
            \/ IsEndMarker(input[pos + 1])
            \/ input[pos + 1] = <<>>)
        => (pc' = "panicked" /\ ret' = ret /\ outputs' = outputs)
     /\ pc = "panicked" => (pc' = "panicked" /\ ret' = ret /\ outputs' = outputs)]_vars

\* an end marker met in the Records state, after a pair was recorded, has
\* ended the run with the panic
C3_Witness ==
  /\ pc = "panicked"
  /\ panic = "Unrecognized line in records input"
  /\ IsEndMarker(input[pos])
  /\ r # <<>>
  /\ outputs = <<>>

\* C4: when the source is exhausted right after a line matched the first-line
\* pattern in the Records state, parse_input panics: it returns neither None
\* nor the records accumulated so far.
C4_MissingPartnerAborts ==
  [][(/\ pc = "loop" /\ state = "Records" /\ pos + 1 = Len(input)
      /\ ~SeparatorMatch[input[pos + 1]]
      /\ FirstlineCaptures[input[pos + 1]].ok)
     => (pc' = "panicked" /\ ret' = ret /\ outputs' = outputs)]_vars

\* the run has ended on the unwrap of the missing partner, with a record
\* accumulated before
C4_Witness ==
  /\ pc = "panicked"
  /\ panic = "unwrap on None"
  /\ pos = Len(input)
  /\ FirstlineCaptures[input[pos]].ok
  /\ r # <<>>

\* C5: in the Records state, a line matching the first-line pattern whose
\* next line does not match the second-line pattern produces no record and no
\* failure: the accumulator is unchanged, the parser stays in Records and goes
\* on with the line after the pair.
C5_UnpairedFirstLineDropped ==
  [][(/\ pc = "loop" /\ state = "Records" /\ pos + 2 <= Len(input)
      /\ ~SeparatorMatch[input[pos + 1]]
      /\ FirstlineCaptures[input[pos + 1]].ok
      /\ ~SecondlineCaptures[input[pos + 2]].ok)
     => (/\ r' = r /\ state' = "Records" /\ pc' = "loop" /\ panic' = ""
         /\ pos' = pos + 2
         /\ records' = records /\ ret' = ret /\ outputs' = outputs)]_vars

\* a pair has just been dropped with a record in the accumulator and a line
\* left to examine
C5_Witness ==
  /\ pc = "loop" /\ state = "Records"
  /\ pos >= 2 /\ roles[pos] = "Partner"
  /\ FirstlineCaptures[input[pos - 1]].ok
  /\ ~SecondlineCaptures[input[pos]].ok
  /\ Len(r) = 1
  /\ pos < Len(input)

\* C6: when the source is exhausted at the head of the loop in the Preamble or
\* Records state (empty input included), parse_input returns None without a
\* panic; the records of an unfinished Records section are not returned.
C6_ExhaustedBeforeClose ==
  [][(pc = "loop" /\ pos = Len(input) /\ state \in {"Preamble", "Records"})
     => (pc' = "returned" /\ ret' = None /\ panic' = "" /\ outputs' = outputs)]_vars

\* None has been returned from an unfinished Records section that held a
\* record
C6_Witness ==
  /\ pc = "returned"
  /\ state = "Records"
  /\ r # <<>>
  /\ ret = None

\* the record a matched pair stands for, read off the tokens of its lines
ExpectedRecord(f, s) ==
  LET out == ByteToken(f, ForwardArrow, 3)
      inb == ByteToken(s, ReverseArrow, 3)
  IN  [rank |-> DecimalValue(RankToken(f)),
       local_name |-> NameToken(f, ForwardArrow),
       outbound_40s_bytes |-> SubSeq(out, 1, Len(out) - 1),
       remote_name |-> NameToken(s, ReverseArrow),
       inbound_40s_bytes |-> SubSeq(inb, 1, Len(inb) - 1)]

\* the records of the well-formed cycle c, in input order
ExpectedRecords(c) ==
  [k \in 1..c.n |-> ExpectedRecord(input[c.open + 2 * k - 1], input[c.open + 2 * k])]

\* the stream is two well-formed cycles, one directly after the other
TwoCycles ==
  /\ CycleAt(0).wf
  /\ CycleAt(CycleAt(0).last).wf
  /\ CycleAt(CycleAt(0).last).last = Len(input)

\* C7: on a stream of two consecutive well-formed cycles the first call
\* returns the records of the first cycle and the second call, which starts at
\* the line after the first end marker, the records of the second cycle, with
\* no record of the other cycle in either; and every call starts in Preamble
\* with no accumulator and no finalized list, whatever the previous call saw.
C7_CyclesIndependent ==
  /\ (pc = "loop" /\ callStarts # <<>> /\ pos = CallStart)
       => (state = "Preamble" /\ r = <<>> /\ records = None)
  /\ TwoCycles =>
       LET c1 == CycleAt(0)
           c2 == CycleAt(CycleAt(0).last)
       IN  /\ pc # "panicked"
           /\ Len(callStarts) >= 2 => callStarts[2] = c1.last
           /\ Len(outputs) >= 1 => outputs[1].records = ExpectedRecords(c1)
           /\ Len(outputs) >= 2 => outputs[2].records = ExpectedRecords(c2)
           /\ Len(callStarts) >= 3 => Len(outputs) = 2
           /\ pc = "done" => Len(outputs) = 2

\* both cycles have been returned, each with its own, different, record
C7_Witness ==
  /\ pc = "done"
  /\ TwoCycles
  /\ Len(outputs) = 2
  /\ Len(outputs[1].records) = 1
  /\ Len(outputs[2].records) = 1
  /\ outputs[1].records[1].rank # outputs[2].records[1].rank

\* positions, between lines a and b, of the first lines of the pairs that were
\* pulled one directly after the other in the Records state and both matched
MatchedPairsIn(a, b) ==
  {i \in (a + 1)..(b - 1) :
     /\ roles[i] = "Records" /\ roles[i + 1] = "Partner"
     /\ FirstlineCaptures[input[i]].ok
     /\ SecondlineCaptures[input[i + 1]].ok}

\* the k-th smallest element of a set of positions
Kth(P, k) ==
  CHOOSE i \in P : Cardinality({j \in P : j <= i}) = k

\* every record of the list stands for its own matched pair of P, in order
BuiltFromPairs(list, P) ==
  /\ Len(list) <= Cardinality(P)
  /\ \A k \in 1..Len(list) :
       list[k] = ExpectedRecord(input[Kth(P, k)], input[Kth(P, k) + 1])

\* line after the last line pulled by the c-th call
CallEnd(c) ==
  IF c < Len(callStarts) THEN callStarts[c + 1] ELSE pos

\* C8: every record in the accumulator, in the finalized list or in a printed
\* cycle was built from two lines pulled one directly after the other in the
\* Records state of its call, the first matching the first-line pattern and
\* the second the second-line pattern; there are no more records than such
\* pairs, so a first line without a matching partner contributes nothing.
C8_RecordsFromMatchedPairs ==
  callStarts # <<>> =>
    /\ BuiltFromPairs(r, MatchedPairsIn(CallStart, pos))
    /\ records.some => BuiltFromPairs(records.val, MatchedPairsIn(CallStart, pos))
    /\ \A c \in 1..Len(outputs) :
         BuiltFromPairs(outputs[c].records, MatchedPairsIn(callStarts[c], CallEnd(c)))

\* a record is in the accumulator and a first line of the same call was
\* dropped because its partner did not match
C8_Witness ==
  /\ pc = "loop" /\ state = "Records"
  /\ callStarts # <<>>
  /\ Len(r) = 1
  /\ \E i \in (CallStart + 1)..(pos - 1) :
       /\ roles[i] = "Records" /\ roles[i + 1] = "Partner"
       /\ FirstlineCaptures[input[i]].ok
       /\ ~SecondlineCaptures[input[i + 1]].ok

\* C10: within one parse_input call the state moves only forward: Records is
\* entered only from Preamble on a separator line, with an empty accumulator;
\* Postamble only from Records on a separator line; nothing goes back.
C10_StateMovesForward ==
  [][(pc = "loop" /\ state' # state)
     => \/ /\ state = "Preamble" /\ state' = "Records"
           /\ pos < Len(input) /\ SeparatorMatch[input[pos + 1]]
           /\ r' = <<>>
        \/ /\ state = "Records" /\ state' = "Postamble"
           /\ pos < Len(input) /\ SeparatorMatch[input[pos + 1]]]_vars

\* a separator line met in the postamble has left the parser in Postamble
C10_Witness ==
  /\ pc = "loop" /\ state = "Postamble"
  /\ pos >= 1 /\ roles[pos] = "Postamble"
  /\ IsSeparatorLine(input[pos])

\* C11: in the Preamble state a line that is not a separator line (a line
\* matching the first-line pattern, the second-line pattern or the end-marker
\* pattern included) is pulled and discarded: no failure, no state change,
\* nothing accumulated or returned; a separator line moves the parser to
\* Records with an empty accumulator.
C11_PreambleDiscards ==
  [][(pc = "loop" /\ state = "Preamble" /\ pos < Len(input))
     => /\ pos' = pos + 1
        /\ pc' = "loop" /\ panic' = ""
        /\ r' = <<>> /\ records' = records /\ ret' = ret /\ outputs' = outputs
        /\ state' = IF IsSeparatorLine(input[pos + 1]) THEN "Records"
                    ELSE "Preamble"]_vars

\* a line matching the first-line pattern was discarded in the preamble and
\* the separator after it has opened an empty Records section
C11_Witness ==
  /\ pc = "loop" /\ state = "Records" /\ pos >= 2
  /\ roles[pos - 1] = "Preamble" /\ roles[pos] = "Preamble"
  /\ FirstlineCaptures[input[pos - 1]].ok
  /\ IsSeparatorLine(input[pos])
  /\ r = <<>> /\ records = None /\ panic = ""

\* C12: in the Postamble state a line that is not an end marker (a separator
\* line and a line matching the first-line pattern included) is pulled and
\* discarded without failure and without altering the finalized list; on the
\* end marker parse_input returns the finalized list having pulled the end
\* marker and nothing after it, and the next call starts at the line directly
\* after the end marker.
C12_PostambleDiscards ==
  [][/\ (pc = "loop" /\ state = "Postamble" /\ pos < Len(input))
        => /\ records.some
           /\ pos' = pos + 1
           /\ records' = records /\ state' = "Postamble"
           /\ panic' = "" /\ outputs' = outputs
           /\ IF IsEndMarker(input[pos + 1])
              THEN pc' = "returned" /\ ret' = records
              ELSE pc' = "loop" /\ ret' = ret
     /\ pc = "returned" => pos' = pos
     /\ pc = "main" => (pos' = pos /\ callStarts' = Append(callStarts, pos))]_vars

\* a second call has started directly after the end marker that ended the
\* first, whose postamble held a discarded separator line
C12_Witness ==
  /\ Len(callStarts) = 2
  /\ Len(outputs) = 1
  /\ callStarts[2] >= 2
  /\ roles[callStarts[2]] = "Postamble"
  /\ IsEndMarker(input[callStarts[2]])
  /\ roles[callStarts[2] - 1] = "Postamble"
  /\ IsSeparatorLine(input[callStarts[2] - 1])
  /\ callStarts[2] < Len(input)

\* C13: the line pulled as the pair partner is consumed and never examined
\* again: when a separator line or another line matching the first-line
\* pattern directly follows a first-line match in the Records state, the loop
\* step pulls both lines, the parser stays in Records, the cycle is not
\* finalized, and (the partner not matching the second-line pattern, as a
\* separator line never does) the accumulator is unchanged and nothing fails;
\* the next line examined is the one after the partner.
C13_PartnerConsumed ==
  [][(/\ pc = "loop" /\ state = "Records" /\ pos + 2 <= Len(input)
      /\ ~IsSeparatorLine(input[pos + 1])
      /\ FirstlineCaptures[input[pos + 1]].ok
      /\ \/ IsSeparatorLine(input[pos + 2])
         \/ FirstlineCaptures[input[pos + 2]].ok)
     => /\ pos' = pos + 2
        /\ roles' = roles \o <<"Records", "Partner">>
        /\ state' = "Records"
        /\ records' = records /\ ret' = ret /\ outputs' = outputs
        /\ IsSeparatorLine(input[pos + 2]) => ~SecondlineCaptures[input[pos + 2]].ok
        /\ ~SecondlineCaptures[input[pos + 2]].ok
             => (r' = r /\ pc' = "loop" /\ panic' = "")]_vars

\* a separator line has been used up as the partner of a first line, after a
\* record was accumulated: the parser is still in Records, nothing is
\* finalized, and a line is left to examine
C13_Witness ==
  /\ pc = "loop" /\ state = "Records"
  /\ pos >= 2 /\ roles[pos] = "Partner"
  /\ FirstlineCaptures[input[pos - 1]].ok
  /\ IsSeparatorLine(input[pos])
  /\ records = None
  /\ Len(r) = 1
  /\ pos < Len(input)

\* C14: when the source is exhausted in the Postamble state (closing separator
\* seen, no end marker), parse_input returns the finalized record list as a
\* completed cycle: not None, and no panic.
C14_ExhaustedInPostamble ==
  [][(pc = "loop" /\ pos = Len(input) /\ state = "Postamble")
     => /\ pc' = "returned"
        /\ records.some
        /\ ret' = Some(records.val)
        /\ panic' = ""]_vars

\* a cycle with a record has been returned at the end of the input, the last
\* line pulled being a postamble line that is not an end marker
C14_Witness ==
  /\ pc = "returned"
  /\ state = "Postamble"
  /\ pos = Len(input)
  /\ roles[pos] = "Postamble"
  /\ ~IsEndMarker(input[pos])
  /\ ret.some
  /\ ret.val # <<>>

\* the closing separator of a Records section was pulled by the call that is
\* running or ran last
ClosingSeparatorConsumed ==
  \E i \in (CallStart + 1)..pos :
    roles[i] = "Records" /\ IsSeparatorLine(input[i])

\* C15: parse_input returns a cycle if and only if the closing separator of a
\* Records section was pulled during that call; a Records section without a
\* matched pair gives a cycle with an empty record list, which is not the
\* no-more-cycles result.
C15_CycleIffClosed ==
  /\ Some(<<>>) # None
  /\ pc = "returned" =>
       /\ ret.some <=> ClosingSeparatorConsumed
       /\ (ret.some /\ MatchedPairsIn(CallStart, pos) = {}) => ret = Some(<<>>)

\* a cycle with an empty record list has been returned from a Records section
\* that held only a dropped pair
C15_Witness ==
  /\ pc = "returned"
  /\ ret = Some(<<>>)
  /\ \E i \in (CallStart + 1)..(pos - 1) :
       /\ roles[i] = "Records" /\ roles[i + 1] = "Partner"
       /\ FirstlineCaptures[input[i]].ok

\* C16: on every finite line sequence a parse_input call terminates, by
\* returning or by failing; lines are pulled in source order, each once (the
\* lines pulled by a step are the next one or two of the source, and the
\* source itself never changes), and a loop step pulls at most two lines, the
\* second only as the partner of a line matching the first-line pattern in the
\* Records state.
C16_TerminatesPullingInOrder ==
  /\ [][/\ input' = input
        /\ pos' \in {pos, pos + 1, pos + 2}
        /\ pos' <= Len(input)
        /\ Len(roles') = pos'
        /\ SubSeq(roles', 1, pos) = roles
        /\ pos' # pos => pc = "loop"
        /\ pos' = pos + 2
             => /\ state = "Records"
                /\ FirstlineCaptures[input[pos + 1]].ok
                /\ roles'[pos + 2] = "Partner"]_vars
  /\ (pc = "loop") ~> (pc \in {"returned", "panicked"})

\* a call has returned after pulling every line of a source of at least six
\* lines, one of them as a pair partner
C16_Witness ==
  /\ pc = "returned"
  /\ Len(callStarts) = 1
  /\ pos = Len(input)
  /\ pos >= 6
  /\ \E i \in 1..pos : roles[i] = "Partner"

\* C17: the driver emits one output unit per completed cycle, in stream
\* order, and stops at the first no-more-cycles result: when parse_input
\* returns a cycle, exactly one Output holding its records unchanged is
\* appended and the loop calls again; when it returns None nothing is emitted,
\* the loop ends, and no line is pulled afterwards; nothing is emitted at any
\* other moment, so the outputs are as many as the calls that returned a cycle.
C17_OneOutputPerCycle ==
  /\ [](/\ pc = "main" => Len(outputs) = Len(callStarts)
        /\ pc = "returned" =>
             /\ Len(outputs) = Len(callStarts) - 1
             /\ ret.some <=> ClosingSeparatorConsumed
        /\ pc = "done" =>
             /\ Len(outputs) = Len(callStarts) - 1
             /\ ~ret.some)
  /\ [][/\ (pc = "returned" /\ ret.some)
           => /\ outputs' = Append(outputs, [records |-> ret.val])
              /\ pc' = "main" /\ pos' = pos
        /\ (pc = "returned" /\ ~ret.some)
           => (pc' = "done" /\ outputs' = outputs /\ pos' = pos)
        /\ pc = "done" => (pc' = "done" /\ outputs' = outputs /\ pos' = pos)
        /\ outputs' # outputs => (pc = "returned" /\ ret.some)]_vars

\* the driver has ended after printing two cycles, the first with an empty
\* record list, the second with a record, and a third call that returned None
C17_Witness ==
  /\ pc = "done"
  /\ Len(callStarts) = 3
  /\ Len(outputs) = 2
  /\ outputs[1].records = <<>>
  /\ outputs[2].records # <<>>
  /\ ret = None

====
